---- MODULE Spec2Model ----
(***************************************************************************)
(* Model of the chunk garbage-collection client                            *)
(* (src/server/pkg/storage/gc/client.go): the refs and chunks tables, the  *)
(* two client operations ReserveChunks and UpdateReferences, each a        *)
(* serializable transaction followed by a call to the Server (flusher),    *)
(* and the flusher that receives FlushDeletes / DeleteChunks.              *)
(***************************************************************************)
EXTENDS Integers, FiniteSets, Sequences, TLC

\* ---------------------------------------------------------------- bounds
MaxCalls == 3      \* calls one caller begins in a run of Spec
RaceCalls == 2     \* calls two concurrent callers begin in a run of SpecRace
MaxChunks == 2     \* length of the chunks list of one ReserveChunks call
MaxEdges == 2      \* len(add) + len(remove) + len(releaseJobs) of one call

\* ------------------------------------------------------------- universes
Procs == {"p1", "p2"}
Hashes == {"h1", "h2"}
Jobs == {"j1", "j2"}
Semantics == {"c1"}
SemanticTargets == {"h1"}     \* chunks a semantic source refers to
ChunkSources == {"h1"}        \* parent chunks
ChunkTargets == {"h2"}        \* their children

\* create type reftype as enum ('chunk', 'job', 'semantic')
reftype == {"chunk", "job", "semantic"}

\* type Reference struct { sourcetype; source; chunk }
Reference ==
  [sourcetype : {"job"}, source : Jobs, chunk : Hashes]
    \cup [sourcetype : {"semantic"}, source : Semantics, chunk : SemanticTargets]
    \cup [sourcetype : {"chunk"}, source : ChunkSources, chunk : ChunkTargets]

\* chunks.deleting is a nullable timestamp: 0 stands for NULL
Null == 0

VARIABLES
  chunks,     \* table chunks: function from the hashes that have a row to deleting
  refs,       \* table refs: set of Reference rows (primary key = whole row)
  pending,    \* flusher: chunks it was asked to delete and has not erased yet
  erased,     \* flusher: chunks physically erased from object storage
  erasedRef,  \* chunks that had a reference row at the moment they were erased
  pc,         \* per caller: position inside ReserveChunks / UpdateReferences
  args,       \* per caller: arguments of the call in progress
  snap,       \* per caller: snapshot its transaction reads
  txn,        \* per caller: state of its transaction
  sent,       \* per caller: the flusher calls it made, in order
  result,     \* per caller: value returned by the call
  last,       \* per caller: the call it made before this one, if a ReserveChunks
  callers,    \* the callers (producers) that run
  calls,      \* number of calls that may still begin
  clock       \* number of calls begun so far: the clock behind now()

vars == <<chunks, refs, pending, erased, erasedRef, pc, args, snap, txn, sent,
          result, last, callers, calls, clock>>

\* ------------------------------------------------------------- helpers
Range(s) == {s[i] : i \in 1..Len(s)}

SeqsUpTo(S, n) == UNION {[1..k -> S] : k \in 0..n}

HasDuplicates(s) == \E i, j \in 1..Len(s) : i # j /\ s[i] = s[j]

RefsTo(rs, c) == {r \in rs : r.chunk = c}

NoArgs == [op |-> "", job |-> "", chunks |-> <<>>, add |-> <<>>,
           remove |-> {}, releaseJobs |-> {}, now |-> 0]

EmptyDb == [chunks |-> [c \in {} |-> Null], refs |-> {}]

NoLast == [job |-> "", chunks |-> <<>>, before |-> EmptyDb, txn |-> "none",
           result |-> ""]

\* ------------------------------------------------ the SQL of ReserveChunks
\* Lines 128-147.  added_chunks upserts one row per listed hash and returns
\* its deleting column; added_refs inserts a job reference for the rows
\* whose deleting is null; the select returns the rows whose deleting is
\* not null.  The statement fails when the list names a hash twice (an
\* upsert cannot touch a row twice) or when a job reference it inserts
\* already exists (refs has no ON CONFLICT clause).
added_chunks(db, hs) ==
  [c \in (DOMAIN db.chunks) \cup hs |->
     IF c \in DOMAIN db.chunks THEN db.chunks[c] ELSE Null]

added_refs(db, job, hs) ==
  {[sourcetype |-> "job", source |-> job, chunk |-> c] :
     c \in {h \in hs : added_chunks(db, hs)[h] = Null}}

ReserveQueryFails(db, job, cs) ==
  \/ HasDuplicates(cs)
  \/ added_refs(db, job, Range(cs)) \cap db.refs # {}

ReserveQuery(db, job, cs) ==
  [chunks |-> added_chunks(db, Range(cs)),
   refs |-> db.refs \cup added_refs(db, job, Range(cs))]

\* readChunksFromCursor over "select chunk from added_chunks where deleting
\* is not null"
chunksToFlush(db, cs) ==
  {c \in Range(cs) : added_chunks(db, Range(cs))[c] # Null}

\* --------------------------------------------- the SQL of UpdateReferences
\* Lines 183-200: COPY of the add list into refs.  A row that is already in
\* refs, or that the list holds twice, violates the primary key.
CopyInFails(db, add) ==
  HasDuplicates(add) \/ Range(add) \cap db.refs # {}

CopyIn(db, add) == [db EXCEPT !.refs = db.refs \cup Range(add)]

\* A delete that forgets the releaseJobs list.
del_refs_RemoveOnly(rs, remove, releaseJobs) == rs \cap remove

\* Lines 202-231: the rows deleted by del_refs.  The remove list and the
\* releaseJobs list only feed the two IN (...) lists of the query, so each
\* is kept as the set of its elements.
del_refs(rs, remove, releaseJobs) ==
  {r \in rs : \/ r \in remove
              \/ r.sourcetype = "job" /\ r.source \in releaseJobs}

\* A count that forgets the rows that stay: count(*) - 1 over del_refs alone.
counts_DeletedOnly(rs, remove, releaseJobs, c) ==
  Cardinality(RefsTo(del_refs(rs, remove, releaseJobs), c)) - 1

\* Lines 232-234: refs join del_refs using (chunk), grouped by chunk.  All
\* sub-statements read the snapshot the statement started with, so refs is
\* the table before del_refs removed anything: the group of chunk c has one
\* row per pair (row of refs for c, deleted row for c).
counts(rs, remove, releaseJobs, c) ==
  Cardinality(RefsTo(rs, c))
    * Cardinality(RefsTo(del_refs(rs, remove, releaseJobs), c)) - 1

\* An update that forgets "count = 0": it stamps every chunk that lost a row.
chunksToDelete_AnyDeleted(db, remove, releaseJobs) ==
  {c \in DOMAIN db.chunks :
     RefsTo(del_refs(db.refs, remove, releaseJobs), c) # {}}

\* Lines 236-241: the rows of chunks the update stamps and returns.
chunksToDelete(db, remove, releaseJobs) ==
  {c \in DOMAIN db.chunks :
     /\ RefsTo(del_refs(db.refs, remove, releaseJobs), c) # {}
     /\ counts(db.refs, remove, releaseJobs, c) = 0}

UpdateQuery(db, remove, releaseJobs, now) ==
  [chunks |-> [c \in DOMAIN db.chunks |->
                 IF c \in chunksToDelete(db, remove, releaseJobs)
                 THEN now ELSE db.chunks[c]],
   refs |-> db.refs \ del_refs(db.refs, remove, releaseJobs)]

\* ------------------------------------------------- serializable isolation
\* sql.LevelSerializable: a transaction reads the snapshot of its first
\* statement and commits only if no transaction that committed since then
\* wrote a row it read or wrote.  Rows are grouped by chunk: the chunks row
\* of c and the refs rows that target c.
Db == [chunks |-> chunks, refs |-> refs]

SameRows(d, e, c) ==
  /\ (c \in DOMAIN d.chunks) = (c \in DOMAIN e.chunks)
  /\ c \in DOMAIN d.chunks => d.chunks[c] = e.chunks[c]
  /\ RefsTo(d.refs, c) = RefsTo(e.refs, c)

JobRows(rs, js) == {r \in rs : r.sourcetype = "job" /\ r.source \in js}

Touched(p) ==
  IF args[p].op = "ReserveChunks"
  THEN Range(args[p].chunks)
  ELSE {r.chunk : r \in Range(args[p].add) \cup args[p].remove}
         \cup {r.chunk : r \in JobRows(snap[p].refs \cup refs,
                                       args[p].releaseJobs)}

SerializationConflict(p) == \E c \in Touched(p) : ~SameRows(Db, snap[p], c)

\* The tables as the transaction of p sees them after its last statement.
Local(p) ==
  IF args[p].op = "ReserveChunks"
  THEN ReserveQuery(snap[p], args[p].job, args[p].chunks)
  ELSE UpdateQuery(CopyIn(snap[p], args[p].add), args[p].remove,
                   args[p].releaseJobs, args[p].now)

\* txn.Commit(): the rows the transaction changed replace those of the table.
Commit(p) ==
  /\ chunks' = [c \in (DOMAIN chunks) \cup (DOMAIN Local(p).chunks) |->
                  IF /\ c \in DOMAIN Local(p).chunks
                     /\ \/ c \notin DOMAIN snap[p].chunks
                        \/ Local(p).chunks[c] # snap[p].chunks[c]
                  THEN Local(p).chunks[c] ELSE chunks[c]]
  /\ refs' = (refs \ (snap[p].refs \ Local(p).refs))
               \cup (Local(p).refs \ snap[p].refs)

\* ------------------------------------------------------------ the flusher
\* Server.FlushDeletes / Server.DeleteChunks return an error or nil.  A
\* flush of a chunk that was already erased cannot succeed; a successful
\* flush withdraws the pending deletion of the chunks it names.
FlusherCall(p, name, cs) ==
  sent' = [sent EXCEPT ![p] = Append(@, [call |-> name, chunks |-> cs])]

\* The flusher erases a chunk it was asked to delete.
Erase(c) ==
  /\ c \in pending
  /\ pending' = pending \ {c}
  /\ erased' = erased \cup {c}
  /\ erasedRef' = IF RefsTo(refs, c) # {} THEN erasedRef \cup {c} ELSE erasedRef
  /\ UNCHANGED <<chunks, refs, pc, args, snap, txn, sent, result, last,
                 callers, calls, clock>>

\* A caller that starts a call has the previous one behind it.
Remember(p) ==
  last' = [last EXCEPT ![p] =
             IF pc[p] = "done" /\ args[p].op = "ReserveChunks"
             THEN [job |-> args[p].job, chunks |-> args[p].chunks,
                   before |-> snap[p], txn |-> txn[p], result |-> result[p]]
             ELSE NoLast]

\* ---------------------------------------------------------- ReserveChunks
\* Lines 110-165: an empty list returns nil at once; otherwise BeginTx and
\* the query, which reads the snapshot taken now.  On a query error the
\* function returns it and leaves the transaction as it is.
ReserveChunks(p, job, cs) ==
  /\ p \in callers
  /\ pc[p] \in {"idle", "done"}
  /\ calls > 0
  /\ calls' = calls - 1
  /\ clock' = clock + 1
  /\ Remember(p)
  /\ args' = [args EXCEPT ![p] = [NoArgs EXCEPT !.op = "ReserveChunks",
                                   !.job = job, !.chunks = cs,
                                   !.now = clock + 1]]
  /\ sent' = [sent EXCEPT ![p] = <<>>]
  /\ IF Len(cs) = 0
     THEN /\ pc' = [pc EXCEPT ![p] = "done"]
          /\ result' = [result EXCEPT ![p] = "nil"]
          /\ txn' = [txn EXCEPT ![p] = "none"]
          /\ snap' = [snap EXCEPT ![p] = EmptyDb]
     ELSE /\ snap' = [snap EXCEPT ![p] = Db]
          /\ txn' = [txn EXCEPT ![p] = "open"]
          /\ IF ReserveQueryFails(Db, job, cs)
             THEN /\ pc' = [pc EXCEPT ![p] = "done"]
                  /\ result' = [result EXCEPT ![p] = "ConstraintViolation"]
             ELSE /\ pc' = [pc EXCEPT ![p] = "rc_commit"]
                  /\ result' = [result EXCEPT ![p] = ""]
  /\ UNCHANGED <<chunks, refs, pending, erased, erasedRef, callers>>

\* Lines 167-169: txn.Commit().
RC_Commit(p) ==
  /\ pc[p] = "rc_commit"
  /\ IF SerializationConflict(p)
     THEN /\ pc' = [pc EXCEPT ![p] = "done"]
          /\ result' = [result EXCEPT ![p] = "SerializationConflict"]
          /\ txn' = [txn EXCEPT ![p] = "rolledback"]
          /\ UNCHANGED <<chunks, refs>>
     ELSE /\ Commit(p)
          /\ pc' = [pc EXCEPT ![p] = "rc_flush"]
          /\ txn' = [txn EXCEPT ![p] = "committed"]
          /\ UNCHANGED result
  /\ UNCHANGED <<pending, erased, erasedRef, args, snap, sent, last,
                 callers, calls, clock>>

\* Line 171: return gcc.server.FlushDeletes(chunksToFlush).
RC_FlushDeletes(p) ==
  /\ pc[p] = "rc_flush"
  /\ FlusherCall(p, "FlushDeletes", chunksToFlush(snap[p], args[p].chunks))
  /\ pc' = [pc EXCEPT ![p] = "done"]
  /\ \/ /\ chunksToFlush(snap[p], args[p].chunks) \cap erased = {}
        /\ pending' = pending \ chunksToFlush(snap[p], args[p].chunks)
        /\ result' = [result EXCEPT ![p] = "nil"]
     \/ /\ result' = [result EXCEPT ![p] = "FlusherError"]
        /\ UNCHANGED pending
  /\ UNCHANGED <<chunks, refs, erased, erasedRef, args, snap, txn, last,
                 callers, calls, clock>>

\* ------------------------------------------------------- UpdateReferences
\* Lines 174-200: BeginTx, whatever the arguments, then COPY the add list
\* into refs, reading the snapshot taken now; roll back on an error.
UpdateReferences(p, add, remove, releaseJobs) ==
  /\ p \in callers
  /\ pc[p] \in {"idle", "done"}
  /\ calls > 0
  /\ calls' = calls - 1
  /\ clock' = clock + 1
  /\ Remember(p)
  /\ args' = [args EXCEPT ![p] = [NoArgs EXCEPT !.op = "UpdateReferences",
                                   !.add = add, !.remove = remove,
                                   !.releaseJobs = releaseJobs,
                                   !.now = clock + 1]]
  /\ sent' = [sent EXCEPT ![p] = <<>>]
  /\ snap' = [snap EXCEPT ![p] = Db]
  /\ IF CopyInFails(Db, add)
     THEN /\ pc' = [pc EXCEPT ![p] = "done"]
          /\ result' = [result EXCEPT ![p] = "ConstraintViolation"]
          /\ txn' = [txn EXCEPT ![p] = "rolledback"]
     ELSE /\ pc' = [pc EXCEPT ![p] = "ur_query"]
          /\ result' = [result EXCEPT ![p] = ""]
          /\ txn' = [txn EXCEPT ![p] = "open"]
  /\ UNCHANGED <<chunks, refs, pending, erased, erasedRef, callers>>

\* Lines 202-259: the delete / count / update query, rolled back on an
\* error, then txn.Commit().
UR_Commit(p) ==
  /\ pc[p] = "ur_query"
  /\ IF SerializationConflict(p)
     THEN /\ pc' = [pc EXCEPT ![p] = "done"]
          /\ result' = [result EXCEPT ![p] = "SerializationConflict"]
          /\ txn' = [txn EXCEPT ![p] = "rolledback"]
          /\ UNCHANGED <<chunks, refs>>
     ELSE /\ Commit(p)
          /\ pc' = [pc EXCEPT ![p] = "ur_delete"]
          /\ txn' = [txn EXCEPT ![p] = "committed"]
          /\ UNCHANGED result
  /\ UNCHANGED <<pending, erased, erasedRef, args, snap, sent, last,
                 callers, calls, clock>>

\* Line 264: return gcc.server.DeleteChunks(chunksToDelete).
ToDelete(p) ==
  chunksToDelete(CopyIn(snap[p], args[p].add), args[p].remove,
                 args[p].releaseJobs)

UR_DeleteChunks(p) ==
  /\ pc[p] = "ur_delete"
  /\ FlusherCall(p, "DeleteChunks", ToDelete(p))
  /\ pc' = [pc EXCEPT ![p] = "done"]
  /\ \/ /\ pending' = pending \cup (ToDelete(p) \ erased)
        /\ result' = [result EXCEPT ![p] = "nil"]
     \/ /\ result' = [result EXCEPT ![p] = "FlusherError"]
        /\ UNCHANGED pending
  /\ UNCHANGED <<chunks, refs, erased, erasedRef, args, snap, txn, last,
                 callers, calls, clock>>

\* ---------------------------------------------------------- specification
Start ==
  /\ chunks = EmptyDb.chunks
  /\ refs = {}
  /\ pending = {}
  /\ erased = {}
  /\ erasedRef = {}
  /\ pc = [p \in Procs |-> "idle"]
  /\ args = [p \in Procs |-> NoArgs]
  /\ snap = [p \in Procs |-> EmptyDb]
  /\ txn = [p \in Procs |-> "none"]
  /\ sent = [p \in Procs |-> <<>>]
  /\ result = [p \in Procs |-> ""]
  /\ last = [p \in Procs |-> NoLast]
  /\ clock = 0

\* One caller over an empty store.
Init == Start /\ callers = {"p1"} /\ calls = MaxCalls

\* Two concurrent callers over an empty store.
InitRace == Start /\ callers = Procs /\ calls = RaceCalls

\* The add lists tried: every list of at most MaxEdges references, one order
\* of each (COPY inserts the same rows in any order).
RefList == CHOOSE s \in [1..Cardinality(Reference) -> Reference] :
             Range(s) = Reference

RefIndex(r) == CHOOSE i \in 1..Len(RefList) : RefList[i] = r

AddLists ==
  {s \in SeqsUpTo(Reference, MaxEdges) :
     \A i \in 1..Len(s) - 1 : RefIndex(s[i]) <= RefIndex(s[i + 1])}

UpdateInputs ==
  {in \in [add : AddLists, remove : SUBSET Reference,
           releaseJobs : SUBSET Jobs] :
     Len(in.add) + Cardinality(in.remove) + Cardinality(in.releaseJobs)
       <= MaxEdges}

Next ==
  \/ \E p \in Procs, job \in Jobs, cs \in SeqsUpTo(Hashes, MaxChunks) :
       ReserveChunks(p, job, cs)
  \/ \E p \in Procs : RC_Commit(p)
  \/ \E p \in Procs : RC_FlushDeletes(p)
  \/ \E p \in Procs, in \in UpdateInputs :
       UpdateReferences(p, in.add, in.remove, in.releaseJobs)
  \/ \E p \in Procs : UR_Commit(p)
  \/ \E p \in Procs : UR_DeleteChunks(p)
  \/ \E c \in Hashes : Erase(c)

Spec == Init /\ [][Next]_vars

SpecRace == InitRace /\ [][Next]_vars

\* The shape of the state: the two tables of initializeDb, the flusher, and
\* each caller's position in the call it runs.
TypeOK ==
  /\ DOMAIN chunks \subseteq Hashes
  /\ \A c \in DOMAIN chunks : chunks[c] \in 0..clock
  /\ refs \subseteq Reference
  /\ pending \subseteq Hashes /\ erased \subseteq Hashes
  /\ erasedRef \subseteq erased
  /\ pc \in [Procs -> {"idle", "rc_commit", "rc_flush", "ur_query",
                       "ur_delete", "done"}]
  /\ txn \in [Procs -> {"none", "open", "committed", "rolledback"}]
  /\ result \in [Procs -> {"", "nil", "ConstraintViolation",
                           "SerializationConflict", "FlusherError"}]
  /\ \A p \in Procs : snap[p].refs \subseteq Reference
  /\ callers \subseteq Procs
  /\ calls \in Nat /\ clock \in Nat

\* ------------------------------------------------------------- properties
IsReserve(p) == args[p].op = "ReserveChunks"
IsUpdate(p) == args[p].op = "UpdateReferences"
Returned(p) == pc[p] = "done"

JobRef(j, c) == [sourcetype |-> "job", source |-> j, chunk |-> c]

\* The chunks a caller handed to the flusher through the named call.
SentChunks(p, name) ==
  UNION {sent[p][i].chunks : i \in {k \in 1..Len(sent[p]) : sent[p][k].call = name}}

\* The refs table inside the transaction of p once the COPY has run, and the
\* rows its query then deletes.
AfterCopy(p) == CopyIn(snap[p], args[p].add).refs
Deleted(p) == del_refs(AfterCopy(p), args[p].remove, args[p].releaseJobs)

\* C1: no chunk is physically erased while a reference row that targets it
\* exists in refs.
C1_NoEraseWhileReferenced == erasedRef = {}

\* C2: when ReserveChunks(j, S) returns success, every chunk of S has a row
\* with deleting NULL and a (job, j, c) reference row, also the chunks that
\* were deleting when the call started.
C2_ReserveSuccessPinsAll ==
  \A p \in callers :
    (Returned(p) /\ IsReserve(p) /\ result[p] = "nil") =>
      \A c \in Range(args[p].chunks) :
        /\ c \in DOMAIN chunks
        /\ chunks[c] = Null
        /\ JobRef(args[p].job, c) \in refs

\* C3: every chunk whose reference count reaches zero through an
\* UpdateReferences call has deleting set and is handed to DeleteChunks by
\* that call, however many of its references the call removed.
C3_ZeroCountMarked ==
  \A p \in callers :
    (Returned(p) /\ IsUpdate(p) /\ txn[p] = "committed") =>
      \A c \in DOMAIN snap[p].chunks :
        (RefsTo(snap[p].refs, c) # {} /\ RefsTo(refs, c) = {}) =>
          /\ chunks[c] # Null
          /\ c \in SentChunks(p, "DeleteChunks")

\* C4: no reference row targets a chunk whose deleting is set.
C4_NoRefToDeleting ==
  \A r \in refs : r.chunk \in DOMAIN chunks => chunks[r.chunk] = Null

\* C5: every chunk row whose deleting is NULL is targeted by at least one
\* reference row.
C5_LiveChunkReferenced ==
  \A c \in DOMAIN chunks : chunks[c] = Null => RefsTo(refs, c) # {}

\* C6: the target chunk of every reference row has a row in chunks.
C6_NoDanglingRefs == \A r \in refs : r.chunk \in DOMAIN chunks

\* C7: two producers that run ReserveChunks(j1, [h1]) and
\* ReserveChunks(j2, [h1]) concurrently over an empty store both return
\* success, and leave one chunk row, the two job references and no flusher
\* call.
C7_RacersBothSucceed ==
  ( /\ Returned("p1") /\ IsReserve("p1")
    /\ args["p1"].job = "j1" /\ args["p1"].chunks = <<"h1">>
    /\ Returned("p2") /\ IsReserve("p2")
    /\ args["p2"].job = "j2" /\ args["p2"].chunks = <<"h1">>
    /\ snap["p1"] = EmptyDb /\ snap["p2"] = EmptyDb ) =>
      /\ result["p1"] = "nil" /\ result["p2"] = "nil"
      /\ DOMAIN chunks = {"h1"} /\ chunks["h1"] = Null
      /\ refs = {JobRef("j1", "h1"), JobRef("j2", "h1")}
      /\ sent["p1"] = <<>> /\ sent["p2"] = <<>>

\* C8: UpdateReferences refuses an add edge whose target chunk has deleting
\* set: it fails with ReferenceToDeletingChunk and does not insert the edge.
C8_RefuseAddToDeleting ==
  \A p \in callers :
    (Returned(p) /\ IsUpdate(p)) =>
      \A r \in Range(args[p].add) :
        (r.chunk \in DOMAIN snap[p].chunks /\ snap[p].chunks[r.chunk] # Null) =>
          /\ result[p] = "ReferenceToDeletingChunk"
          /\ r \in refs => r \in snap[p].refs

\* C9: UpdateReferences with an add edge whose target chunk has no row fails
\* with MissingChunk and leaves refs and chunks as they were.
C9_MissingChunkRefused ==
  \A p \in callers :
    (Returned(p) /\ IsUpdate(p)) =>
      ((\E r \in Range(args[p].add) : r.chunk \notin DOMAIN snap[p].chunks) =>
         /\ result[p] = "MissingChunk"
         /\ Db = snap[p])

\* C10: in one UpdateReferences call the adds are inserted before the
\* removals are applied and counted: a chunk that loses a job pin in the
\* call that adds a reference to it is not stamped and not handed to
\* DeleteChunks, while a chunk that loses its only reference in that call,
\* and gets none, is stamped and handed to DeleteChunks.
LosesPinGetsRef(p, c) ==
  /\ \E r \in RefsTo(snap[p].refs, c) \cap Deleted(p) : r.sourcetype = "job"
  /\ \E r \in Range(args[p].add) : r.chunk = c

LosesOnlyRef(p, c) ==
  /\ c \in DOMAIN snap[p].chunks
  /\ Cardinality(RefsTo(snap[p].refs, c)) = 1
  /\ RefsTo(snap[p].refs, c) \subseteq Deleted(p)
  /\ \A r \in Range(args[p].add) : r.chunk # c

C10_AddsBeforeRemoves ==
  \A p \in callers :
    (Returned(p) /\ IsUpdate(p) /\ txn[p] = "committed") =>
      \A c \in Hashes :
        /\ LosesPinGetsRef(p, c) =>
             /\ c \notin SentChunks(p, "DeleteChunks")
             /\ c \in DOMAIN chunks => chunks[c] = snap[p].chunks[c]
        /\ LosesOnlyRef(p, c) =>
             /\ c \in SentChunks(p, "DeleteChunks")
             /\ chunks[c] = args[p].now

\* One call releases a job that pins two chunks and adds a reference to one
\* of them: that one stays, the other is stamped and handed over.
C10_Witness ==
  \E p \in callers : \E c, d \in Hashes :
    /\ Returned(p) /\ IsUpdate(p) /\ txn[p] = "committed"
    /\ LosesPinGetsRef(p, c) /\ LosesOnlyRef(p, d)
    /\ chunks[c] = Null /\ chunks[d] = args[p].now
    /\ SentChunks(p, "DeleteChunks") = {d}

\* The positions in sent[p] of the calls of one flusher function.
SentCalls(p, name) == {i \in 1..Len(sent[p]) : sent[p][i].call = name}

\* C11: a ReserveChunks whose transaction committed calls FlushDeletes if
\* and only if a requested chunk was deleting when the transaction ran, and
\* then with exactly those chunks; with none deleting it makes no flusher
\* call.
C11_FlushOnlyForDeleting ==
  \A p \in callers :
    (Returned(p) /\ IsReserve(p) /\ txn[p] = "committed") =>
      /\ (SentCalls(p, "FlushDeletes") # {})
           <=> (chunksToFlush(snap[p], args[p].chunks) # {})
      /\ \A i \in SentCalls(p, "FlushDeletes") :
           sent[p][i].chunks = chunksToFlush(snap[p], args[p].chunks)

\* C12: once the transaction of UpdateReferences has committed the call
\* returns success, whatever DeleteChunks reports.
C12_FlusherErrorAbsorbed ==
  \A p \in callers :
    (Returned(p) /\ IsUpdate(p) /\ txn[p] = "committed") => result[p] = "nil"

\* C13: UpdateReferences whose add list holds an edge that is already in
\* refs, or holds an edge twice, succeeds; the duplicate is a no-op and the
\* other adds and removes take effect.
C13_DuplicateAddIsNoOp ==
  \A p \in callers :
    (Returned(p) /\ IsUpdate(p) /\ CopyInFails(snap[p], args[p].add)) =>
      /\ result[p] = "nil"
      /\ refs = AfterCopy(p) \ Deleted(p)

\* The call before this one was ReserveChunks(job, cs) and it committed.
FollowsReserve(p) == last[p].txn = "committed"

\* C14: ReserveChunks(j, S) repeated with the same arguments, after the
\* first call succeeded, succeeds and leaves refs and chunks as the first
\* call left them.
C14_ReserveIdempotent ==
  \A p \in callers :
    ( /\ Returned(p) /\ IsReserve(p)
      /\ FollowsReserve(p) /\ last[p].result = "nil"
      /\ last[p].job = args[p].job /\ last[p].chunks = args[p].chunks ) =>
        /\ result[p] = "nil"
        /\ Db = snap[p]

\* C15: a call with empty input begins no transaction, changes no row and
\* makes no flusher call: ReserveChunks with no chunks, and UpdateReferences
\* with add, remove and releaseJobs all empty.
EmptyUpdate(p) ==
  /\ IsUpdate(p)
  /\ args[p].add = <<>> /\ args[p].remove = {} /\ args[p].releaseJobs = {}

C15_EmptyInputNoTransaction ==
  \A p \in callers :
    /\ (Returned(p) /\ IsReserve(p) /\ args[p].chunks = <<>>) =>
         txn[p] = "none" /\ sent[p] = <<>>
    /\ (Returned(p) /\ EmptyUpdate(p)) =>
         txn[p] = "none" /\ sent[p] = <<>> /\ Db = snap[p]

\* C16: for a job j that holds no reference, ReserveChunks(j, S) followed
\* by UpdateReferences([], [], [j]) restores the state before the reserve.
ReleasesLastReserve(p) ==
  /\ Returned(p) /\ IsUpdate(p) /\ txn[p] = "committed"
  /\ args[p].add = <<>> /\ args[p].remove = {}
  /\ FollowsReserve(p)
  /\ args[p].releaseJobs = {last[p].job}
  /\ JobRows(last[p].before.refs, {last[p].job}) = {}

WasDeleting(p, c) ==
  c \in DOMAIN last[p].before.chunks /\ last[p].before.chunks[c] # Null

RECURSIVE Traverse(_)
Traverse(S) ==
  LET T == S \cup {r.chunk : r \in {e \in refs : e.sourcetype = "chunk"
                                                   /\ e.source \in S}}
  IN IF T = S THEN S ELSE Traverse(T)

ReachableChunks == Traverse({r.chunk : r \in {e \in refs : e.sourcetype # "job"}})

C17_ReachableIsLive ==
  ReachableChunks = {c \in DOMAIN chunks : chunks[c] = Null}

\* C18: every chunk an UpdateReferences call hands to DeleteChunks had, at
\* the commit of the call's transaction, no reference row and deleting set;
\* DeleteChunks is called only after that transaction committed.
C18_DeleteOnlyUnreferenced ==
  \A p \in callers :
    (IsUpdate(p) /\ SentCalls(p, "DeleteChunks") # {}) =>
      /\ txn[p] = "committed"
      /\ \A c \in SentChunks(p, "DeleteChunks") :
           /\ RefsTo(refs, c) = {}
           /\ c \in DOMAIN chunks /\ chunks[c] # Null

\* A call that removed rows of two chunks handed over the one left without
\* a reference and kept the other.
C18_Witness ==
  \E p \in callers : \E c, d \in Hashes :
    /\ Returned(p) /\ IsUpdate(p) /\ txn[p] = "committed"
    /\ SentChunks(p, "DeleteChunks") = {c}
    /\ RefsTo(refs, c) = {} /\ chunks[c] = args[p].now
    /\ RefsTo(Deleted(p), d) # {} /\ RefsTo(refs, d) # {}

\* C19: a chunk whose deleting is already set keeps its time stamp through
\* an UpdateReferences call and is not handed to DeleteChunks again.
C19_DeletingNotRestamped ==
  \A p \in callers :
    (Returned(p) /\ IsUpdate(p) /\ txn[p] = "committed") =>
      \A c \in DOMAIN snap[p].chunks :
        snap[p].chunks[c] # Null =>
          /\ chunks[c] = snap[p].chunks[c]
          /\ c \notin SentChunks(p, "DeleteChunks")

\* C20: every transaction ReserveChunks or UpdateReferences begins is
\* committed or rolled back when the call returns, on every return path.
C20_NoTransactionLeftOpen ==
  \A p \in callers : Returned(p) => txn[p] # "open"

====
